---- MODULE Spec2Model ----
(***************************************************************************)
(* The dual-mode persistence client of Framework Hub (src/lib/api.ts):     *)
(* every operation probes GET /health, then works either on the browser's  *)
(* localStorage collections "pipelines" / "generatedCodes" (offline) or on *)
(* the REST backend (online).  The backend process itself (main.py) is not *)
(* part of the sources; its store is modelled from the interface table of  *)
(* the specification.                                                      *)
(***************************************************************************)
EXTENDS Integers, Sequences, FiniteSets, TLC

VARIABLES
    pipelines,       \* localStorage["pipelines"], as JSON.parse reads it
    generatedCodes,  \* localStorage["generatedCodes"], as JSON.parse reads it
    remoteLogs,      \* build_logs collection of the backend
    remoteCodes,     \* generated_code collection of the backend
    now,             \* Date.now()
    created,         \* records built by offline generatedCodeApi.create in the
                     \* cap scenario, oldest first
    last,            \* the call that returned last: arguments, branch, outcome
    page,            \* the page that is mounted and issues the calls
    corrupt,         \* the localStorage keys whose text JSON.parse rejects
    tasks,           \* calls issued without awaiting one another, each with
                     \* the point it is suspended at
    writes,          \* the tasks that have run setItem, in that order
    flow             \* the execution flow a framework page is running

vars ==
    <<pipelines, generatedCodes, remoteLogs, remoteCodes, now, created, last,
      page, corrupt, tasks, writes, flow>>

-----------------------------------------------------------------------------
(* Bounds of the model *)

MaxRecords == 2      \* records held by the four collections together
MaxClock == 2        \* last Date.now() reading
MaxCapCreates == 11  \* creates, and last clock reading, of the cap scenario
MaxFill == 12        \* records held together in the fill scenario
MaxTasks == 2        \* calls one page has in flight at once

(* Program constant: "Keep only 10 most recent" *)
CodeCap == 10

(* Program constant: the length of the steps array of an execution flow *)
StepCount == 10

-----------------------------------------------------------------------------
(* JavaScript values.  An object is a function from its own keys to        *)
(* strings; a key that is absent reads as undefined.                       *)

Undefined == "<undefined>"

EmptyObj == [k \in {} |-> Undefined]

Get(o, k) == IF k \in DOMAIN o THEN o[k] ELSE Undefined

\* { ...a, ...b }
Spread(a, b) ==
    [k \in DOMAIN a \cup DOMAIN b |-> IF k \in DOMAIN b THEN b[k] ELSE a[k]]

\* JavaScript truthiness of a string-or-undefined value
Truthy(v) == v # Undefined /\ v # ""

\* a || b
Or(a, b) == IF Truthy(a) THEN a ELSE b

\* JSON.parse(JSON.stringify(o)) of one object: keys holding undefined are dropped
JsonObject(o) == [k \in {x \in DOMAIN o : o[x] # Undefined} |-> o[k]]

\* JSON.parse(JSON.stringify(list)) of an array of objects
JsonList(list) == [i \in DOMAIN list |-> JsonObject(list[i])]

\* String.prototype.includes
Includes(s, sub) ==
    \E i \in 1..(Len(s) - Len(sub) + 1) : SubSeq(s, i, i + Len(sub) - 1) = sub

\* Array.prototype.slice(0, n)
Slice(list, n) == SubSeq(list, 1, IF n < Len(list) THEN n ELSE Len(list))

\* Array.prototype.findIndex over the outcomes of the test on each element,
\* 1-based; 0 where JavaScript gives -1
FindIndex(tests) ==
    IF \E i \in DOMAIN tests : tests[i]
    THEN CHOOSE i \in DOMAIN tests :
            tests[i] /\ \A j \in 1..(i - 1) : ~tests[j]
    ELSE 0

-----------------------------------------------------------------------------
(* Values the callers supply *)

BuildIds == {"JTAF-1", "JTAF-2"}

CanonicalFields ==
    {"build_id", "type", "status", "start_time", "end_time", "config",
     "command", "jenkins_job", "output_log"}

\* BuildLog objects passed to buildLogsApi.create: one as the execution
\* flows build it (no end_time, no output_log), one with every optional field
BuildLogInputs ==
    { [build_id |-> "JTAF-1", type |-> "JTAF Framework", status |-> "running",
       start_time |-> "2024-01-01T00:00:00Z", config |-> "{}",
       command |-> "jtaf run", jenkins_job |-> "jtaf-pipeline"],
      [build_id |-> "JTAF-2", type |-> "OS Making", status |-> "completed",
       start_time |-> "2024-01-02T00:00:00Z",
       end_time |-> "2024-01-02T00:01:00Z", config |-> "{}",
       command |-> "", jenkins_job |-> "", output_log |-> "done"] }

\* data objects passed to buildLogsApi.update
UpdateData ==
    { [status |-> s, end_time |-> "2024-01-01T00:05:00Z"] :
        s \in {"completed", "failed"} }

\* A record of "pipelines" written under the historical field names
HistoricalLog(b) ==
    [id |-> b, build_id |-> b, type |-> "Floating Framework",
     status |-> "running", startTime |-> "2023-06-01T00:00:00Z",
     endTime |-> "2023-06-01T00:09:00Z", jenkinsJob |-> "floating-pipeline",
     config |-> "{}"]

Languages == {"python"}

CodeInputs ==
    { [language |-> l, type |-> "function", code |-> "// " \o l,
       description |-> "demo"] : l \in Languages }

-----------------------------------------------------------------------------
(* Health Prober *)

HealthOutcomes == {"2xx", "non2xx", "neterr"}

\* the probe made once and its answer kept for the later calls
checkApiHealthCached(h) ==
    IF last.api = "none" THEN h = "2xx" ELSE last.mode = "online"

\* the probe answering true whenever fetch resolves, response.ok unread
checkApiHealthResolved(h) == h # "neterr"

\* checkApiHealth: response.ok, false when fetch rejects
checkApiHealth(h) == h = "2xx"

-----------------------------------------------------------------------------
(* Local Fallback Store: "pipelines" *)

\* the test with the second comparison left out: p.id === buildId || p.build_id
MatchesLogTruthy(p, buildId) ==
    Get(p, "id") = buildId \/ Truthy(Get(p, "build_id"))

\* p.id === buildId || p.build_id === buildId
MatchesLog(p, buildId) == Get(p, "id") = buildId \/ Get(p, "build_id") = buildId

\* the object getById builds from the stored record p it found
NormalizeLog(p) ==
    Spread(p, [start_time  |-> Or(Get(p, "startTime"), Get(p, "start_time")),
               end_time    |-> Or(Get(p, "endTime"), Get(p, "end_time")),
               jenkins_job |-> Or(Get(p, "jenkinsJob"), Get(p, "jenkins_job"))])

\* create, offline, replacing the records that have the same build_id
LocalCreateLogReplace(stored, buildLog) ==
    JsonList(<<Spread(buildLog, [id |-> buildLog.build_id])>>
             \o SelectSeq(stored, LAMBDA p : ~MatchesLog(p, buildLog.build_id)))

\* create, offline, with push in the place of unshift
LocalCreateLogPush(stored, buildLog) ==
    JsonList(stored \o <<Spread(buildLog, [id |-> buildLog.build_id])>>)

\* create, offline: unshift { ...buildLog, id: buildLog.build_id }, setItem
LocalCreateLog(stored, buildLog) ==
    JsonList(<<Spread(buildLog, [id |-> buildLog.build_id])>> \o stored)

\* getAll, offline: pipelines.map(p => ({ ...p, start_time: ..., ... }))
LocalGetAllLogs(stored) ==
    [i \in DOMAIN stored |->
        Spread(stored[i],
               [start_time  |-> Or(Get(stored[i], "startTime"),
                                   Get(stored[i], "start_time")),
                end_time    |-> Or(Get(stored[i], "endTime"),
                                   Get(stored[i], "end_time")),
                jenkins_job |-> Or(Get(stored[i], "jenkinsJob"),
                                   Get(stored[i], "jenkins_job"))])]

\* the index of the last matching record instead of the first
LocalFindLogLast(stored, buildId) ==
    IF \E i \in DOMAIN stored : MatchesLog(stored[i], buildId)
    THEN CHOOSE i \in DOMAIN stored :
            /\ MatchesLog(stored[i], buildId)
            /\ \A j \in (i + 1)..Len(stored) : ~MatchesLog(stored[j], buildId)
    ELSE 0

\* getById, offline: index of pipelines.find(...), 0 when it finds nothing
LocalFindLog(stored, buildId) ==
    FindIndex([i \in DOMAIN stored |-> MatchesLog(stored[i], buildId)])

\* update, offline, with the spread reversed: { ...data, ...old }
LocalUpdateLogKeep(stored, buildId, data) ==
    LET pipelineIndex == LocalFindLog(stored, buildId) IN
    IF pipelineIndex # 0
    THEN JsonList([stored EXCEPT
                     ![pipelineIndex] = Spread(data, stored[pipelineIndex])])
    ELSE stored

\* update, offline, moving the updated record to the front of the list
LocalUpdateLogToFront(stored, buildId, data) ==
    LET pipelineIndex == LocalFindLog(stored, buildId) IN
    IF pipelineIndex # 0
    THEN JsonList(<<Spread(stored[pipelineIndex], data)>>
                  \o SubSeq(stored, 1, pipelineIndex - 1)
                  \o SubSeq(stored, pipelineIndex + 1, Len(stored)))
    ELSE stored

\* update, offline, storing data as a new record when findIndex gives -1
LocalUpdateLogUpsert(stored, buildId, data) ==
    LET pipelineIndex == LocalFindLog(stored, buildId) IN
    IF pipelineIndex # 0
    THEN JsonList([stored EXCEPT
                     ![pipelineIndex] = Spread(stored[pipelineIndex], data)])
    ELSE JsonList(<<Spread(data, [id |-> buildId])>> \o stored)

\* update, offline: pipelines[pipelineIndex] = { ...old, ...data }, setItem;
\* nothing is written when findIndex gives -1
LocalUpdateLog(stored, buildId, data) ==
    LET pipelineIndex == LocalFindLog(stored, buildId) IN
    IF pipelineIndex # 0
    THEN JsonList([stored EXCEPT
                     ![pipelineIndex] = Spread(stored[pipelineIndex], data)])
    ELSE stored

\* delete, offline, removing only the first record that matches
LocalDeleteLogFirst(stored, buildId) ==
    LET pipelineIndex ==
            FindIndex([i \in DOMAIN stored |-> MatchesLog(stored[i], buildId)])
    IN
    JsonList(IF pipelineIndex = 0 THEN stored
             ELSE SubSeq(stored, 1, pipelineIndex - 1)
                  \o SubSeq(stored, pipelineIndex + 1, Len(stored)))

\* delete, offline: filter(p.id !== buildId && p.build_id !== buildId), setItem
LocalDeleteLog(stored, buildId) ==
    JsonList(SelectSeq(stored, LAMBDA p : ~MatchesLog(p, buildId)))

(* Local Fallback Store: "generatedCodes" *)

\* Date.now().toString()
TimeId(t) == ToString(t)

\* new Date().toISOString()
IsoTime(t) == "1970-01-01T00:00:00.00" \o ToString(t) \o "Z"

\* the record create builds at clock reading t
NewCode(code, t) == Spread(code, [id |-> TimeId(t), created_at |-> IsoTime(t)])

\* create, offline, with push in the place of unshift
LocalCreateCodePush(stored, code, t) ==
    LET existingCodes == stored \o <<NewCode(code, t)>> IN
    JsonList(IF Len(existingCodes) > CodeCap
             THEN SubSeq(existingCodes, 1, CodeCap)
             ELSE existingCodes)

\* create, offline, without the splice
LocalCreateCodeUncapped(stored, code, t) ==
    JsonList(<<NewCode(code, t)>> \o stored)

\* create, offline: unshift, splice(10) past ten records, setItem
LocalCreateCode(stored, code, t) ==
    LET existingCodes == <<NewCode(code, t)>> \o stored IN
    JsonList(IF Len(existingCodes) > CodeCap
             THEN SubSeq(existingCodes, 1, CodeCap)
             ELSE existingCodes)

\* getAll, offline, slicing from the end of the list: codes.slice(-n)
LocalGetAllCodesOldest(stored, limit) ==
    LET n == IF limit # 0 THEN limit ELSE CodeCap IN
    SubSeq(stored, IF n < Len(stored) THEN Len(stored) - n + 1 ELSE 1, Len(stored))

\* getAll, offline: codes.slice(0, params?.limit || 10); limit 0 stands for
\* a call without limit
LocalGetAllCodes(stored, limit) == Slice(stored, IF limit # 0 THEN limit ELSE CodeCap)

\* getById, offline: index of codes.find(c => c.id === codeId)
LocalFindCode(stored, codeId) ==
    FindIndex([i \in DOMAIN stored |-> Get(stored[i], "id") = codeId])

\* delete, offline: filter(c => c.id !== codeId), setItem
LocalDeleteCode(stored, codeId) ==
    JsonList(SelectSeq(stored, LAMBDA c : Get(c, "id") # codeId))

\* clearAll, offline, writing the empty list under another key
LocalClearOtherKey(stored) == stored

\* clearAll, offline: setItem(key, JSON.stringify([]))
LocalClear(stored) == JsonList(<<>>)

-----------------------------------------------------------------------------
(* Backend store, after the interface table of the specification: one      *)
(* record per build_id (unique index of init-mongo.js), newest first.      *)

RemoteOutcomes == {"served", "rejected", "neterr"}

RemoteFind(coll, id) == 
    FindIndex([i \in DOMAIN coll |-> Get(coll[i], "id") = id])

RemoteInsertLog(coll, body) ==
    <<Spread(JsonObject(body), [id |-> body.build_id])>> \o coll

RemoteUpdate(coll, id, body) ==
    [coll EXCEPT ![RemoteFind(coll, id)] = Spread(@, JsonObject(body))]

RemoteDelete(coll, id) == SelectSeq(coll, LAMBDA r : Get(r, "id") # id)

\* GET /build-logs?limit=n and GET /generated-code?limit=n
RemoteList(coll, limit) == IF limit # 0 THEN Slice(coll, limit) ELSE coll

RemoteInsertCode(coll, body, t) ==
    <<Spread(JsonObject(body), [id |-> "srv-" \o ToString(t),
                                created_at |-> IsoTime(t)])>> \o coll

\* message of a 2xx answer of the backend
RemoteMessage(what) == what \o " successfully"

-----------------------------------------------------------------------------
(* What a call leaves behind for the caller *)

\* return value
Returned(v) == [kind |-> "ok", value |-> v]

\* throw new Error(message)
Throw(message) == [kind |-> "throw", error |-> message]

\* a fallback response whose message lacks the marker
OfflineMessagePlain(text) == text

\* the message of a response built by the fallback branch
OfflineMessage(text) == text \o " (offline mode)"

\* the rejection of fetch itself when the server cannot be reached
FetchRejected == "TypeError: Failed to fetch"

\* the branch an operation takes on probe outcome h
Mode(h) == IF checkApiHealth(h) THEN "online" ELSE "offline"

\* what fetch gives the remote branch: a rejection when the server cannot
\* be reached, else the answer of the backend, 2xx when it serves the
\* request and accepts it
Response(r, accepted) ==
    IF r = "neterr" THEN "neterr"
    ELSE IF r = "served" /\ accepted THEN "2xx"
    ELSE "non2xx"

\* outcome of the remote branch without the test of response.ok
OnlineOutUnchecked(response, value, failure) ==
    IF response = "neterr" THEN Throw(FetchRejected) ELSE Returned(value)

\* outcome of the remote branch: the rejection of fetch propagates, a 2xx
\* answer is returned as response.json(), any other answer makes the
\* operation throw its own Error
OnlineOut(response, value, failure) ==
    IF response = "neterr" THEN Throw(FetchRejected)
    ELSE IF response = "2xx" THEN Returned(value)
    ELSE Throw(failure)

ReadOps == {"getAll", "getById", "get"}
WriteOps == {"create", "update", "delete", "clearAll"}

\* the id a finished call was about: the id create returned, the id argument
\* of the other operations
KeyOf(c) ==
    IF c.op = "create" /\ c.out.kind = "ok" THEN c.out.value.id ELSE c.id

\* For a read: the write it directly follows, when that write returned
\* normally on the same resource, in the same branch and (where both name an
\* id) for the same id; "none" otherwise
AfterOf(api, op, mode, id) ==
    IF /\ op \in ReadOps
       /\ last.op \in WriteOps
       /\ last.out.kind = "ok"
       /\ last.api = api
       /\ last.mode = mode
       /\ (id = "" \/ KeyOf(last) = "" \/ KeyOf(last) = id)
    THEN last.op
    ELSE "none"

\* One finished call: the probe outcome and the branch taken, what the
\* backend did with the request and what fetch gave, the arguments, the
\* outcome.  before is, for delete and clearAll, what the collection of the
\* branch taken held when the call started and, for update, the record the
\* call was about as it was then; a read that directly follows a write
\* keeps the before of that write.
Call(api, op, h, r, response, id, input, limit, out, before) ==
    [api |-> api, op |-> op, health |-> h, mode |-> Mode(h), server |-> r,
     remote |-> response,
     id |-> id, input |-> input, limit |-> limit, out |-> out,
     before |-> IF AfterOf(api, op, Mode(h), id) # "none" THEN last.before
                ELSE before,
     after |-> AfterOf(api, op, Mode(h), id),
     probes |-> 1,
     requests |-> IF checkApiHealth(h) THEN 1 ELSE 0]

\* the localStorage key behind a resource client
StorageKey(api) == IF api = "buildLogs" THEN "pipelines" ELSE "generatedCodes"

StorageKeys == {"pipelines", "generatedCodes"}

\* JSON.parse(localStorage.getItem(key) || "[]") throws for one of keys
Unparseable(keys) == keys \cap corrupt # {}

\* what JSON.parse throws
JsonSyntaxError == "SyntaxError: Unexpected token in JSON"

\* the keys a finished call has overwritten without parsing them: the
\* setItem(key, JSON.stringify([])) of the fallback clearAll
Rewritten(c) ==
    IF c.op = "clearAll" /\ c.mode = "offline" THEN {StorageKey(c.api)} ELSE {}

Finish(c) ==
    /\ last' = c
    /\ corrupt' = corrupt \ Rewritten(c)
    /\ UNCHANGED <<page, tasks, writes, flow>>

\* a fallback branch whose JSON.parse throws: the SyntaxError leaves the
\* operation before anything is written
ParseFailed(api, op, h, id, input, limit) ==
    /\ UNCHANGED <<pipelines, generatedCodes, remoteLogs, remoteCodes, created>>
    /\ Finish(Call(api, op, h, "none", "none", id, input, limit,
                  Throw(JsonSyntaxError), <<>>))

\* Each page imports one resource client: the pipelines page and the
\* execution pages buildLogsApi, the code-generation page generatedCodeApi
Pages == {"pipelines", "code-generation"}

\* records held by the four collections together
Stored ==
    Len(pipelines) + Len(generatedCodes) + Len(remoteLogs) + Len(remoteCodes)

-----------------------------------------------------------------------------
(* buildLogsApi *)

BuildLogsCreate ==
    \E buildLog \in BuildLogInputs, h \in HealthOutcomes :
        IF ~checkApiHealth(h) /\ Unparseable({"pipelines"})
        THEN UNCHANGED now /\ ParseFailed("buildLogs", "create", h, "", buildLog, 0)
        ELSE IF ~checkApiHealth(h)
        THEN /\ Stored < MaxRecords
             /\ pipelines' = LocalCreateLog(pipelines, buildLog)
             /\ UNCHANGED <<generatedCodes, remoteLogs, remoteCodes, now, created>>
             /\ Finish(Call("buildLogs", "create", h, "none", "none", "", buildLog, 0,
                    Returned([id |-> buildLog.build_id,
                              message |-> OfflineMessage("Build log created")]),
                    <<>>))
        ELSE \E r \in RemoteOutcomes :
             LET accepted == RemoteFind(remoteLogs, buildLog.build_id) = 0
                 response == Response(r, accepted)
             IN  /\ response = "2xx" => Stored < MaxRecords
                 /\ remoteLogs' = IF response = "2xx"
                                  THEN RemoteInsertLog(remoteLogs, buildLog)
                                  ELSE remoteLogs
                 /\ UNCHANGED <<pipelines, generatedCodes, remoteCodes, now, created>>
                 /\ Finish(Call("buildLogs", "create", h, r, Response(r, accepted),
                        "", buildLog, 0,
                        OnlineOut(Response(r, accepted),
                                  [id |-> buildLog.build_id,
                                   message |-> RemoteMessage("Build log created")],
                                  "Failed to create build log"),
                        <<>>))

\* getAll whose remote branch adds the fallback records to the answer
BuildLogsGetAllMerged ==
    \E limit \in {0, 1}, h \in HealthOutcomes :
        /\ UNCHANGED <<pipelines, generatedCodes, remoteLogs, remoteCodes, now, created>>
        /\ IF ~checkApiHealth(h) /\ Unparseable({"pipelines"})
           THEN ParseFailed("buildLogs", "getAll", h, "", EmptyObj, limit)
           ELSE IF ~checkApiHealth(h)
           THEN Finish(Call("buildLogs", "getAll", h, "none", "none", "", EmptyObj, limit,
                    Returned(LocalGetAllLogs(pipelines)), <<>>))
           ELSE \E r \in RemoteOutcomes :
                Finish(Call("buildLogs", "getAll", h, r, Response(r, TRUE),
                    "", EmptyObj, limit,
                    OnlineOut(Response(r, TRUE),
                              RemoteList(remoteLogs, limit)
                                  \o LocalGetAllLogs(pipelines),
                              "Failed to fetch build logs"),
                    <<>>))

\* getAll writing the normalised list back to "pipelines"
BuildLogsGetAllWriteBack ==
    \E limit \in {0, 1}, h \in HealthOutcomes :
        /\ UNCHANGED <<generatedCodes, remoteLogs, remoteCodes, now, created>>
        /\ IF ~checkApiHealth(h) /\ Unparseable({"pipelines"})
           THEN ParseFailed("buildLogs", "getAll", h, "", EmptyObj, limit)
           ELSE IF ~checkApiHealth(h)
           THEN /\ pipelines' = JsonList(LocalGetAllLogs(pipelines))
                /\ Finish(Call("buildLogs", "getAll", h, "none", "none", "",
                       EmptyObj, limit,
                       Returned(LocalGetAllLogs(pipelines)), <<>>))
           ELSE /\ UNCHANGED pipelines
                /\ \E r \in RemoteOutcomes :
                   Finish(Call("buildLogs", "getAll", h, r, Response(r, TRUE),
                       "", EmptyObj, limit,
                       OnlineOut(Response(r, TRUE), RemoteList(remoteLogs, limit),
                                 "Failed to fetch build logs"),
                       <<>>))

BuildLogsGetAll ==
    \E limit \in {0, 1}, h \in HealthOutcomes :
        /\ UNCHANGED <<pipelines, generatedCodes, remoteLogs, remoteCodes, now, created>>
        /\ IF ~checkApiHealth(h) /\ Unparseable({"pipelines"})
           THEN ParseFailed("buildLogs", "getAll", h, "", EmptyObj, limit)
           ELSE IF ~checkApiHealth(h)
           THEN Finish(Call("buildLogs", "getAll", h, "none", "none", "", EmptyObj, limit,
                    Returned(LocalGetAllLogs(pipelines)), <<>>))
           ELSE \E r \in RemoteOutcomes :
                Finish(Call("buildLogs", "getAll", h, r, Response(r, TRUE),
                    "", EmptyObj, limit,
                    OnlineOut(Response(r, TRUE), RemoteList(remoteLogs, limit),
                              "Failed to fetch build logs"),
                    <<>>))

BuildLogsGetById ==
    \E buildId \in BuildIds, h \in HealthOutcomes :
        /\ UNCHANGED <<pipelines, generatedCodes, remoteLogs, remoteCodes, now, created>>
        /\ IF ~checkApiHealth(h) /\ Unparseable({"pipelines"})
           THEN ParseFailed("buildLogs", "getById", h, buildId, EmptyObj, 0)
           ELSE IF ~checkApiHealth(h)
           THEN LET i == LocalFindLog(pipelines, buildId) IN
                Finish(Call("buildLogs", "getById", h, "none", "none", buildId, EmptyObj, 0,
                    IF i = 0 THEN Throw("Build log not found")
                    ELSE Returned(NormalizeLog(pipelines[i])),
                    <<>>))
           ELSE \E r \in RemoteOutcomes :
                LET i == RemoteFind(remoteLogs, buildId) IN
                Finish(Call("buildLogs", "getById", h, r, Response(r, i # 0),
                    buildId, EmptyObj, 0,
                    OnlineOut(Response(r, i # 0),
                              IF i # 0 THEN remoteLogs[i] ELSE EmptyObj,
                              "Failed to fetch build log"),
                    <<>>))

BuildLogsUpdate ==
    \E buildId \in BuildIds, data \in UpdateData, h \in HealthOutcomes :
        IF ~checkApiHealth(h) /\ Unparseable({"pipelines"})
        THEN UNCHANGED now /\ ParseFailed("buildLogs", "update", h, buildId, data, 0)
        ELSE IF ~checkApiHealth(h)
        THEN /\ pipelines' = LocalUpdateLog(pipelines, buildId, data)
             /\ UNCHANGED <<generatedCodes, remoteLogs, remoteCodes, now, created>>
             /\ Finish(Call("buildLogs", "update", h, "none", "none", buildId, data, 0,
                    Returned([message |-> OfflineMessage("Build log updated")]),
                    Slice(SelectSeq(pipelines, LAMBDA p : MatchesLog(p, buildId)), 1)))
        ELSE \E r \in RemoteOutcomes :
             LET found == RemoteFind(remoteLogs, buildId) # 0 IN
             /\ remoteLogs' = IF Response(r, found) = "2xx"
                              THEN RemoteUpdate(remoteLogs, buildId, data)
                              ELSE remoteLogs
             /\ UNCHANGED <<pipelines, generatedCodes, remoteCodes, now, created>>
             /\ Finish(Call("buildLogs", "update", h, r, Response(r, found),
                    buildId, data, 0,
                    OnlineOut(Response(r, found),
                              [message |-> RemoteMessage("Build log updated")],
                              "Failed to update build log"),
                    Slice(SelectSeq(remoteLogs, LAMBDA p : Get(p, "id") = buildId), 1)))

BuildLogsDelete ==
    \E buildId \in BuildIds, h \in HealthOutcomes :
        IF ~checkApiHealth(h) /\ Unparseable({"pipelines"})
        THEN UNCHANGED now /\ ParseFailed("buildLogs", "delete", h, buildId, EmptyObj, 0)
        ELSE IF ~checkApiHealth(h)
        THEN /\ pipelines' = LocalDeleteLog(pipelines, buildId)
             /\ UNCHANGED <<generatedCodes, remoteLogs, remoteCodes, now, created>>
             /\ Finish(Call("buildLogs", "delete", h, "none", "none", buildId, EmptyObj, 0,
                    Returned([message |-> OfflineMessage("Build log deleted")]),
                    pipelines))
        ELSE \E r \in RemoteOutcomes :
             LET found == RemoteFind(remoteLogs, buildId) # 0 IN
             /\ remoteLogs' = IF Response(r, found) = "2xx" THEN RemoteDelete(remoteLogs, buildId)
                              ELSE remoteLogs
             /\ UNCHANGED <<pipelines, generatedCodes, remoteCodes, now, created>>
             /\ Finish(Call("buildLogs", "delete", h, r, Response(r, found),
                    buildId, EmptyObj, 0,
                    OnlineOut(Response(r, found),
                              [message |-> RemoteMessage("Build log deleted")],
                              "Failed to delete build log"),
                    remoteLogs))

\* clearAll, offline, emptying the whole localStorage: localStorage.clear()
BuildLogsClearAllStorage ==
    \E h \in HealthOutcomes :
        IF ~checkApiHealth(h)
        THEN /\ pipelines' = LocalClear(pipelines)
             /\ generatedCodes' = LocalClear(generatedCodes)
             /\ UNCHANGED <<remoteLogs, remoteCodes, now, created>>
             /\ Finish(Call("buildLogs", "clearAll", h, "none", "none", "", EmptyObj, 0,
                    Returned([message |-> OfflineMessage("All build logs cleared")]),
                    pipelines))
        ELSE \E r \in RemoteOutcomes :
             /\ remoteLogs' = IF r = "served" THEN <<>> ELSE remoteLogs
             /\ UNCHANGED <<pipelines, generatedCodes, remoteCodes, now, created>>
             /\ Finish(Call("buildLogs", "clearAll", h, r, Response(r, TRUE),
                    "", EmptyObj, 0,
                    OnlineOut(Response(r, TRUE),
                              [message |-> RemoteMessage("All build logs cleared")],
                              "Failed to clear build logs"),
                    remoteLogs))

BuildLogsClearAll ==
    \E h \in HealthOutcomes :
        IF ~checkApiHealth(h)
        THEN /\ pipelines' = LocalClear(pipelines)
             /\ UNCHANGED <<generatedCodes, remoteLogs, remoteCodes, now, created>>
             /\ Finish(Call("buildLogs", "clearAll", h, "none", "none", "", EmptyObj, 0,
                    Returned([message |-> OfflineMessage("All build logs cleared")]),
                    pipelines))
        ELSE \E r \in RemoteOutcomes :
             /\ remoteLogs' = IF r = "served" THEN <<>> ELSE remoteLogs
             /\ UNCHANGED <<pipelines, generatedCodes, remoteCodes, now, created>>
             /\ Finish(Call("buildLogs", "clearAll", h, r, Response(r, TRUE),
                    "", EmptyObj, 0,
                    OnlineOut(Response(r, TRUE),
                              [message |-> RemoteMessage("All build logs cleared")],
                              "Failed to clear build logs"),
                    remoteLogs))

-----------------------------------------------------------------------------
(* generatedCodeApi *)

\* create within the bounds of a scenario: probe outcomes healths, at most
\* maxRecords records held, clock readings up to maxClock; track says
\* whether the scenario records the objects the offline branch builds
GeneratedCodeCreateIn(healths, maxRecords, maxClock, track) ==
    \E code \in CodeInputs, h \in healths, tick \in {0, 1} :
        LET t == now + tick IN
        /\ t <= maxClock
        /\ now' = t
        /\ IF ~checkApiHealth(h) /\ Unparseable({"generatedCodes"})
           THEN ParseFailed("generatedCode", "create", h, "", code, 0)
           ELSE IF ~checkApiHealth(h)
           THEN /\ IF track THEN Len(created) < maxRecords ELSE Stored < maxRecords
                /\ generatedCodes' = LocalCreateCode(generatedCodes, code, t)
                /\ created' = IF track
                              THEN Append(created, JsonObject(NewCode(code, t)))
                              ELSE created
                /\ UNCHANGED <<pipelines, remoteLogs, remoteCodes>>
                /\ Finish(Call("generatedCode", "create", h, "none", "none", "", code, 0,
                       Returned([id |-> TimeId(t),
                                 message |-> OfflineMessage("Generated code saved")]),
                       <<>>))
           ELSE \E r \in RemoteOutcomes :
                /\ r = "served" => Stored < maxRecords
                /\ remoteCodes' = IF r = "served"
                                  THEN RemoteInsertCode(remoteCodes, code, t)
                                  ELSE remoteCodes
                /\ UNCHANGED <<pipelines, generatedCodes, remoteLogs, created>>
                /\ Finish(Call("generatedCode", "create", h, r, Response(r, TRUE),
                       "", code, 0,
                       OnlineOut(Response(r, TRUE),
                                 [id |-> "srv-" \o ToString(t),
                                  message |-> RemoteMessage("Generated code saved")],
                                 "Failed to save generated code"),
                       <<>>))

GeneratedCodeCreate ==
    GeneratedCodeCreateIn(HealthOutcomes, MaxRecords, MaxClock, FALSE)

GeneratedCodeGetAllIn(limits, healths) ==
    \E limit \in limits, h \in healths :
        /\ UNCHANGED <<pipelines, generatedCodes, remoteLogs, remoteCodes, now, created>>
        /\ IF ~checkApiHealth(h) /\ Unparseable({"generatedCodes"})
           THEN ParseFailed("generatedCode", "getAll", h, "", EmptyObj, limit)
           ELSE IF ~checkApiHealth(h)
           THEN Finish(Call("generatedCode", "getAll", h, "none", "none", "", EmptyObj, limit,
                    Returned(LocalGetAllCodes(generatedCodes, limit)), <<>>))
           ELSE \E r \in RemoteOutcomes :
                Finish(Call("generatedCode", "getAll", h, r, Response(r, TRUE),
                    "", EmptyObj, limit,
                    OnlineOut(Response(r, TRUE), RemoteList(remoteCodes, limit),
                              "Failed to fetch generated code"),
                    <<>>))

GeneratedCodeGetAll == GeneratedCodeGetAllIn({0, 1}, HealthOutcomes)

\* ids a caller passes: the ids held by either collection, the id the last
\* call was about, and one id no create has returned
CodeIds ==
    {Get(generatedCodes[i], "id") : i \in DOMAIN generatedCodes}
        \cup {Get(remoteCodes[i], "id") : i \in DOMAIN remoteCodes}
        \cup {KeyOf(last) : x \in {y \in {1} : last.api = "generatedCode"
                                                 /\ KeyOf(last) # ""}}
        \cup {"unknown"}

GeneratedCodeGetById ==
    \E codeId \in CodeIds, h \in HealthOutcomes :
        /\ UNCHANGED <<pipelines, generatedCodes, remoteLogs, remoteCodes, now, created>>
        /\ IF ~checkApiHealth(h) /\ Unparseable({"generatedCodes"})
           THEN ParseFailed("generatedCode", "getById", h, codeId, EmptyObj, 0)
           ELSE IF ~checkApiHealth(h)
           THEN LET i == LocalFindCode(generatedCodes, codeId) IN
                Finish(Call("generatedCode", "getById", h, "none", "none", codeId, EmptyObj, 0,
                    IF i = 0 THEN Throw("Generated code not found")
                    ELSE Returned(generatedCodes[i]),
                    <<>>))
           ELSE \E r \in RemoteOutcomes :
                LET i == RemoteFind(remoteCodes, codeId) IN
                Finish(Call("generatedCode", "getById", h, r, Response(r, i # 0),
                    codeId, EmptyObj, 0,
                    OnlineOut(Response(r, i # 0),
                              IF i # 0 THEN remoteCodes[i] ELSE EmptyObj,
                              "Failed to fetch generated code"),
                    <<>>))

GeneratedCodeDelete ==
    \E codeId \in CodeIds, h \in HealthOutcomes :
        IF ~checkApiHealth(h) /\ Unparseable({"generatedCodes"})
        THEN UNCHANGED now /\ ParseFailed("generatedCode", "delete", h, codeId, EmptyObj, 0)
        ELSE IF ~checkApiHealth(h)
        THEN /\ generatedCodes' = LocalDeleteCode(generatedCodes, codeId)
             /\ UNCHANGED <<pipelines, remoteLogs, remoteCodes, now, created>>
             /\ Finish(Call("generatedCode", "delete", h, "none", "none", codeId, EmptyObj, 0,
                    Returned([message |-> OfflineMessage("Generated code deleted")]),
                    generatedCodes))
        ELSE \E r \in RemoteOutcomes :
             LET found == RemoteFind(remoteCodes, codeId) # 0 IN
             /\ remoteCodes' = IF Response(r, found) = "2xx" THEN RemoteDelete(remoteCodes, codeId)
                               ELSE remoteCodes
             /\ UNCHANGED <<pipelines, generatedCodes, remoteLogs, now, created>>
             /\ Finish(Call("generatedCode", "delete", h, r, Response(r, found),
                    codeId, EmptyObj, 0,
                    OnlineOut(Response(r, found),
                              [message |-> RemoteMessage("Generated code deleted")],
                              "Failed to delete generated code"),
                    remoteCodes))

GeneratedCodeClearAll ==
    \E h \in HealthOutcomes :
        IF ~checkApiHealth(h)
        THEN /\ generatedCodes' = LocalClear(generatedCodes)
             /\ UNCHANGED <<pipelines, remoteLogs, remoteCodes, now, created>>
             /\ Finish(Call("generatedCode", "clearAll", h, "none", "none", "", EmptyObj, 0,
                    Returned([message |-> OfflineMessage("All generated code cleared")]),
                    generatedCodes))
        ELSE \E r \in RemoteOutcomes :
             /\ remoteCodes' = IF r = "served" THEN <<>> ELSE remoteCodes
             /\ UNCHANGED <<pipelines, generatedCodes, remoteLogs, now, created>>
             /\ Finish(Call("generatedCode", "clearAll", h, r, Response(r, TRUE),
                    "", EmptyObj, 0,
                    OnlineOut(Response(r, TRUE),
                              [message |-> RemoteMessage("All generated code cleared")],
                              "Failed to clear generated code"),
                    remoteCodes))

-----------------------------------------------------------------------------
(* statsApi *)

\* list.filter(p => p[field] === value).length
CountWhere(list, field, value) ==
    Cardinality({i \in DOMAIN list : Get(list[i], field) = value})

\* the Stats object with the type buckets compared to the short labels
StatsOfShortLabels(logs, codes) ==
    [build_logs |->
        [total     |-> Len(logs),
         running   |-> CountWhere(logs, "status", "running"),
         completed |-> CountWhere(logs, "status", "completed"),
         failed    |-> CountWhere(logs, "status", "failed"),
         by_type   |->
            [jtaf      |-> CountWhere(logs, "type", "JTAF"),
             floating  |-> CountWhere(logs, "type", "Floating"),
             os_making |-> CountWhere(logs, "type", "OS Making")]],
     generated_code |-> [total |-> Len(codes), limit |-> CodeCap]]

\* the Stats object computed from the two collections
StatsOf(logs, codes) ==
    [build_logs |->
        [total     |-> Len(logs),
         running   |-> CountWhere(logs, "status", "running"),
         completed |-> CountWhere(logs, "status", "completed"),
         failed    |-> CountWhere(logs, "status", "failed"),
         by_type   |->
            [jtaf      |-> CountWhere(logs, "type", "JTAF Framework"),
             floating  |-> CountWhere(logs, "type", "Floating Framework"),
             os_making |-> CountWhere(logs, "type", "OS Making")]],
     generated_code |-> [total |-> Len(codes), limit |-> CodeCap]]

StatsGet ==
    \E h \in HealthOutcomes :
        /\ UNCHANGED <<pipelines, generatedCodes, remoteLogs, remoteCodes, now, created>>
        /\ IF ~checkApiHealth(h) /\ Unparseable(StorageKeys)
           THEN ParseFailed("stats", "get", h, "", EmptyObj, 0)
           ELSE IF ~checkApiHealth(h)
           THEN Finish(Call("stats", "get", h, "none", "none", "", EmptyObj, 0,
                    Returned(StatsOf(pipelines, generatedCodes)), <<>>))
           ELSE \E r \in RemoteOutcomes :
                Finish(Call("stats", "get", h, r, Response(r, TRUE),
                    "", EmptyObj, 0,
                    OnlineOut(Response(r, TRUE), StatsOf(remoteLogs, remoteCodes),
                              "Failed to fetch stats"),
                    <<>>))

-----------------------------------------------------------------------------
(* The client as a whole: calls are awaited one after another *)

NoCall ==
    [api |-> "none", op |-> "none", health |-> "neterr", mode |-> "offline",
     server |-> "none", remote |-> "none", id |-> "", input |-> EmptyObj, limit |-> 0,
     out |-> Returned(EmptyObj), before |-> <<>>, after |-> "none",
     probes |-> 0, requests |-> 0]

\* no execution flow has been started
NoFlow ==
    [kind |-> "none", pc |-> "idle", id |-> "", step |-> 0, trigger |-> "none",
     error |-> "", issued |-> <<>>, toast |-> "none"]

\* no call is in flight and no flow runs: calls are awaited one by one
Sequential ==
    /\ tasks = <<>>
    /\ writes = <<>>
    /\ flow = NoFlow

\* "pipelines" is empty, or holds a record an earlier version of the page
\* wrote under the historical field names; everything else is empty
Init ==
    /\ pipelines \in {<<>>, <<HistoricalLog("JTAF-1")>>}
    /\ generatedCodes = <<>>
    /\ remoteLogs = <<>>
    /\ remoteCodes = <<>>
    /\ now = 0
    /\ created = <<>>
    /\ last = NoCall
    /\ page \in Pages
    /\ corrupt = {}
    /\ Sequential

Next ==
    \/ (page = "pipelines" /\ BuildLogsCreate)
    \/ (page = "pipelines" /\ BuildLogsGetAll)
    \/ (page = "pipelines" /\ BuildLogsGetById)
    \/ (page = "pipelines" /\ BuildLogsUpdate)
    \/ (page = "pipelines" /\ BuildLogsDelete)
    \/ (page = "pipelines" /\ BuildLogsClearAll)
    \/ (page = "code-generation" /\ GeneratedCodeCreate)
    \/ (page = "code-generation" /\ GeneratedCodeGetAll)
    \/ (page = "code-generation" /\ GeneratedCodeGetById)
    \/ (page = "code-generation" /\ GeneratedCodeDelete)
    \/ (page = "code-generation" /\ GeneratedCodeClearAll)
    \/ StatsGet

Spec == Init /\ [][Next]_vars

-----------------------------------------------------------------------------
(* The cap scenario: from an empty fallback store, the code-generation page *)
(* saves generated code and lists it while the backend is unavailable.      *)

OfflineOutcomes == {h \in HealthOutcomes : ~checkApiHealth(h)}

CapCreate ==
    GeneratedCodeCreateIn(OfflineOutcomes, MaxCapCreates, MaxCapCreates, TRUE)

\* getAll() and getAll({limit: n}) below, at and above what can be stored
CapLimits == {0, 2, CodeCap, CodeCap + 1}

CapGetAll == GeneratedCodeGetAllIn(CapLimits, OfflineOutcomes)

InitCap ==
    /\ pipelines = <<>>
    /\ generatedCodes = <<>>
    /\ remoteLogs = <<>>
    /\ remoteCodes = <<>>
    /\ now = 0
    /\ created = <<>>
    /\ last = NoCall
    /\ page = "code-generation"
    /\ corrupt = {}
    /\ Sequential

NextCap == CapCreate \/ CapGetAll

SpecCap == InitCap /\ [][NextCap]_vars

-----------------------------------------------------------------------------
(* The fill scenario: from empty stores, the code-generation page saves,   *)
(* lists, reads, deletes and clears generated code in either mode and the   *)
(* statistics are read, all within one millisecond.                         *)

FillCreate == GeneratedCodeCreateIn(HealthOutcomes, MaxFill, 0, FALSE)

NextFill ==
    \/ FillCreate
    \/ GeneratedCodeGetAll
    \/ GeneratedCodeGetById
    \/ GeneratedCodeDelete
    \/ GeneratedCodeClearAll
    \/ StatsGet

SpecFill == InitCap /\ [][NextFill]_vars

-----------------------------------------------------------------------------
(* The two-resource scenario: each fallback collection holds a record and  *)
(* the session writes through both resource clients, in either mode.        *)

InitBoth ==
    /\ pipelines = <<HistoricalLog("JTAF-1")>>
    /\ \E code \in CodeInputs : generatedCodes = JsonList(<<NewCode(code, 0)>>)
    /\ remoteLogs = <<>>
    /\ remoteCodes = <<>>
    /\ now = 0
    /\ created = <<>>
    /\ last = NoCall
    /\ page = "pipelines"
    /\ corrupt = {}
    /\ Sequential

\* generated code is saved within the millisecond of the stored record
BothCreate == GeneratedCodeCreateIn(HealthOutcomes, MaxRecords, 0, FALSE)

NextBoth ==
    \/ BuildLogsCreate
    \/ BuildLogsUpdate
    \/ BuildLogsDelete
    \/ BuildLogsClearAll
    \/ BothCreate
    \/ GeneratedCodeDelete
    \/ GeneratedCodeClearAll

SpecBoth == InitBoth /\ [][NextBoth]_vars

-----------------------------------------------------------------------------
(* The damaged-storage scenario: the key the mounted page works on holds   *)
(* text that is not JSON, written by something other than this client.     *)

InitStorage ==
    /\ pipelines = <<>>
    /\ generatedCodes = <<>>
    /\ remoteLogs = <<>>
    /\ remoteCodes = <<>>
    /\ now = 0
    /\ created = <<>>
    /\ last = NoCall
    /\ page \in Pages
    /\ corrupt = {IF page = "pipelines" THEN "pipelines" ELSE "generatedCodes"}
    /\ Sequential

SpecStorage == InitStorage /\ [][Next]_vars

-----------------------------------------------------------------------------
(* The field-name scenario: "pipelines" holds a record whose start, end    *)
(* and job fields are each stored under the canonical name, the historical  *)
(* name, both or neither, alone or above a canonical record; the pipelines  *)
(* page reads it.                                                           *)

NameChoices == {"canonical", "historical", "both", "neither"}

\* the fields of one stored value: under name c, under name h, under both
\* (the two values differ) or not at all
StoredField(choice, c, h, value) ==
    IF choice = "canonical" THEN c :> value
    ELSE IF choice = "historical" THEN h :> value
    ELSE IF choice = "both" THEN (c :> value) @@ (h :> (value \o " (old)"))
    ELSE EmptyObj

StoredLog(b, start, end, job) ==
    [id |-> b, build_id |-> b, type |-> "Floating Framework",
     status |-> "completed", config |-> "{}"]
        @@ StoredField(start, "start_time", "startTime", "2023-06-01T00:00:00Z")
        @@ StoredField(end, "end_time", "endTime", "2023-06-01T00:09:00Z")
        @@ StoredField(job, "jenkins_job", "jenkinsJob", "floating-pipeline")

StoredLogs ==
    {StoredLog("JTAF-1", start, end, job) :
        start \in NameChoices \ {"neither"}, end \in NameChoices,
        job \in NameChoices \ {"neither"}}

InitNames ==
    /\ \E p \in StoredLogs :
         pipelines \in {<<p>>, <<p, StoredLog("JTAF-2", "canonical", "neither", "canonical")>>,
                        <<StoredLog("JTAF-2", "historical", "both", "both"), p>>}
    /\ generatedCodes = <<>>
    /\ remoteLogs = <<>>
    /\ remoteCodes = <<>>
    /\ now = 0
    /\ created = <<>>
    /\ last = NoCall
    /\ page = "pipelines"
    /\ corrupt = {}
    /\ Sequential

NextNames == BuildLogsGetAll \/ BuildLogsGetById

SpecNames == InitNames /\ [][NextNames]_vars

-----------------------------------------------------------------------------
(* The list-filter scenario: both stores hold build logs of different      *)
(* status and type, and getAll is called with every choice of params.       *)

\* params of buildLogsApi.getAll; 0 and "" stand for a field left out
ParamChoices ==
    [skip : {0, 1}, limit : {0, 1}, status : {"", "running"},
     type : {"", "OS Making"}]

\* the query string: the fields of params that are truthy
SearchParams(params) ==
    { k \in DOMAIN params : params[k] # (IF k \in {"skip", "limit"} THEN 0 ELSE "") }

\* GET /build-logs?skip&limit&status&type
RemoteQuery(coll, params) ==
    LET sent == SearchParams(params)
        matching == SelectSeq(coll, LAMBDA rec :
                        /\ "status" \in sent => Get(rec, "status") = params.status
                        /\ "type" \in sent => Get(rec, "type") = params.type)
        skipped == IF "skip" \in sent
                   THEN SubSeq(matching, params.skip + 1, Len(matching))
                   ELSE matching
    IN  IF "limit" \in sent THEN Slice(skipped, params.limit) ELSE skipped

\* getAll applying params to the fallback collection as the backend does
BuildLogsGetAllParamsLocal ==
    \E params \in ParamChoices, h \in HealthOutcomes :
        /\ UNCHANGED <<pipelines, generatedCodes, remoteLogs, remoteCodes, now, created>>
        /\ IF ~checkApiHealth(h)
           THEN Finish(Call("buildLogs", "getAll", h, "none", "none", "", params,
                    params.limit,
                    Returned(RemoteQuery(LocalGetAllLogs(pipelines), params)), <<>>))
           ELSE \E r \in RemoteOutcomes :
                Finish(Call("buildLogs", "getAll", h, r, Response(r, TRUE),
                    "", params, params.limit,
                    OnlineOut(Response(r, TRUE), RemoteQuery(remoteLogs, params),
                              "Failed to fetch build logs"),
                    <<>>))

\* buildLogsApi.getAll(params)
BuildLogsGetAllParams ==
    \E params \in ParamChoices, h \in HealthOutcomes :
        /\ UNCHANGED <<pipelines, generatedCodes, remoteLogs, remoteCodes, now, created>>
        /\ IF ~checkApiHealth(h) /\ Unparseable({"pipelines"})
           THEN ParseFailed("buildLogs", "getAll", h, "", params, params.limit)
           ELSE IF ~checkApiHealth(h)
           THEN Finish(Call("buildLogs", "getAll", h, "none", "none", "", params,
                    params.limit,
                    Returned(LocalGetAllLogs(pipelines)), <<>>))
           ELSE \E r \in RemoteOutcomes :
                Finish(Call("buildLogs", "getAll", h, r, Response(r, TRUE),
                    "", params, params.limit,
                    OnlineOut(Response(r, TRUE), RemoteQuery(remoteLogs, params),
                              "Failed to fetch build logs"),
                    <<>>))

\* build logs as buildLogsApi.create leaves them in either store
ListedLogs ==
    { JsonObject(Spread(l, [id |-> l.build_id])) : l \in BuildLogInputs }
        \cup {HistoricalLog("JTAF-3")}

InitParams ==
    /\ pipelines \in {<<a, b>> : a, b \in ListedLogs} \cup {<<a>> : a \in ListedLogs}
    /\ remoteLogs \in {<<a, b>> : a, b \in ListedLogs}
    /\ generatedCodes = <<>>
    /\ remoteCodes = <<>>
    /\ now = 0
    /\ created = <<>>
    /\ last = NoCall
    /\ page = "pipelines"
    /\ corrupt = {}
    /\ Sequential

NextParams == BuildLogsGetAllParams

SpecParams == InitParams /\ [][NextParams]_vars

-----------------------------------------------------------------------------
(* The several-matches scenario: "pipelines" holds three build logs, newest *)
(* first, whose id and build_id may repeat and may differ from each other;  *)
(* the pipelines page reads, updates and deletes by key.                    *)

\* the key pairs a stored record can carry
KeyShapes == {<<"JTAF-1", "JTAF-1">>, <<"JTAF-2", "JTAF-2">>,
              <<"JTAF-1", "JTAF-2">>, <<"legacy-7", "JTAF-1">>}

\* a stored build log; command tells the runs apart
KeyedLog(shape, run) ==
    [id |-> shape[1], build_id |-> shape[2], type |-> "JTAF Framework",
     status |-> "running", start_time |-> "2024-01-01T00:00:00Z",
     config |-> "{}", command |-> run, jenkins_job |-> "jtaf-pipeline"]

InitMatches ==
    /\ \E s1, s2, s3 \in KeyShapes :
         pipelines = <<KeyedLog(s3, "run 3"), KeyedLog(s2, "run 2"),
                       KeyedLog(s1, "run 1")>>
    /\ generatedCodes = <<>>
    /\ remoteLogs = <<>>
    /\ remoteCodes = <<>>
    /\ now = 0
    /\ created = <<>>
    /\ last = NoCall
    /\ page = "pipelines"
    /\ corrupt = {}
    /\ Sequential

NextMatches == BuildLogsGetById \/ BuildLogsUpdate \/ BuildLogsDelete

SpecMatches == InitMatches /\ [][NextMatches]_vars

-----------------------------------------------------------------------------
(* Calls in flight.  A call that is not awaited before the next one is      *)
(* issued is a task: it waits for its probe, then either runs the fallback  *)
(* block (getItem and JSON.parse, the change, setItem) or waits for its     *)
(* remote request.  The tasks of one execution context share one event     *)
(* loop, which runs a block to its end before it resumes another task;     *)
(* contexts (tabs) share localStorage and run side by side.                 *)

\* data objects of two updates that race for one record
RaceData ==
    { [status |-> "completed", output_log |-> "all steps done"],
      [status |-> "failed", end_time |-> "2024-01-01T00:05:00Z"] }

NewTask(ctx, op, id, input) ==
    [ctx |-> ctx, op |-> op, id |-> id, input |-> input, pc |-> "probe",
     read |-> <<>>, seen |-> 0, out |-> [kind |-> "pending"]]

CreateTasks(ctx) ==
    { NewTask(ctx, "create", buildLog.build_id, buildLog) : buildLog \in BuildLogInputs }

UpdateTasks(ctx) ==
    { NewTask(ctx, "update", "JTAF-1", data) : data \in RaceData }

\* every context's event loop is free to resume any of its tasks
RunToCompletionPreempted(t) == TRUE

\* the event loop of the context of task t is free: no other task of that
\* context is inside its fallback block
RunToCompletion(t) ==
    \A u \in DOMAIN tasks \ {t} :
        tasks[u].ctx = tasks[t].ctx => tasks[u].pc # "write"

\* the write step changing what localStorage holds now
WriteBaseFresh(t) == pipelines

\* the array the fallback block changes and stores: the one it parsed
WriteBase(t) == tasks[t].read

\* the change a fallback block makes to the array it parsed
LocalStep(task, stored) ==
    IF task.op = "create" THEN LocalCreateLog(stored, task.input)
    ELSE LocalUpdateLog(stored, task.id, task.input)

\* await checkApiHealth() settles
TaskProbe(t) ==
    /\ tasks[t].pc = "probe"
    /\ RunToCompletion(t)
    /\ \E h \in HealthOutcomes :
         tasks' = [tasks EXCEPT ![t].pc = IF checkApiHealth(h) THEN "remote"
                                           ELSE "local"]
    /\ UNCHANGED <<pipelines, generatedCodes, remoteLogs, remoteCodes, now,
                   created, last, page, corrupt, writes, flow>>

\* JSON.parse(localStorage.getItem("pipelines") || "[]")
TaskRead(t) ==
    /\ tasks[t].pc = "local"
    /\ RunToCompletion(t)
    /\ tasks' = IF Unparseable({"pipelines"})
                THEN [tasks EXCEPT ![t].pc = "done",
                                   ![t].out = Throw(JsonSyntaxError)]
                ELSE [tasks EXCEPT ![t].pc = "write", ![t].read = pipelines,
                                   ![t].seen = Len(writes)]
    /\ UNCHANGED <<pipelines, generatedCodes, remoteLogs, remoteCodes, now,
                   created, last, page, corrupt, writes, flow>>

\* the change, localStorage.setItem("pipelines", ...) and the return; update
\* stores nothing when it found no record
TaskWrite(t) ==
    /\ tasks[t].pc = "write"
    /\ pipelines' = IF tasks[t].op = "update"
                       /\ LocalFindLog(WriteBase(t), tasks[t].id) = 0
                    THEN pipelines
                    ELSE LocalStep(tasks[t], WriteBase(t))
    /\ tasks' = [tasks EXCEPT
                   ![t].pc = "done",
                   ![t].out = IF tasks[t].op = "create"
                              THEN Returned([id |-> tasks[t].input.build_id,
                                             message |-> OfflineMessage("Build log created")])
                              ELSE Returned([message |-> OfflineMessage("Build log updated")])]
    /\ writes' = Append(writes, t)
    /\ UNCHANGED <<generatedCodes, remoteLogs, remoteCodes, now, created, last,
                   page, corrupt, flow>>

\* await fetch(...) of the remote branch settles
TaskRemote(t) ==
    /\ tasks[t].pc = "remote"
    /\ RunToCompletion(t)
    /\ \E r \in RemoteOutcomes :
         LET found == RemoteFind(remoteLogs, tasks[t].id) # 0
             response == Response(r, IF tasks[t].op = "create" THEN ~found ELSE found)
         IN  /\ remoteLogs' = IF response # "2xx" THEN remoteLogs
                              ELSE IF tasks[t].op = "create"
                              THEN RemoteInsertLog(remoteLogs, tasks[t].input)
                              ELSE RemoteUpdate(remoteLogs, tasks[t].id, tasks[t].input)
             /\ tasks' = [tasks EXCEPT
                   ![t].pc = "done",
                   ![t].out = IF tasks[t].op = "create"
                              THEN OnlineOut(response,
                                       [id |-> tasks[t].input.build_id,
                                        message |-> RemoteMessage("Build log created")],
                                       "Failed to create build log")
                              ELSE OnlineOut(response,
                                       [message |-> RemoteMessage("Build log updated")],
                                       "Failed to update build log")]
    /\ UNCHANGED <<pipelines, generatedCodes, remoteCodes, now, created, last,
                   page, corrupt, writes, flow>>

NextTasks ==
    \E t \in DOMAIN tasks :
        TaskProbe(t) \/ TaskRead(t) \/ TaskWrite(t) \/ TaskRemote(t)

\* "pipelines" when the tasks are issued
RaceStore == <<HistoricalLog("JTAF-1")>>

InitTasks(issued) ==
    /\ pipelines = RaceStore
    /\ generatedCodes = <<>>
    /\ remoteLogs = <<>>
    /\ remoteCodes = <<>>
    /\ now = 0
    /\ created = <<>>
    /\ last = NoCall
    /\ page = "pipelines"
    /\ corrupt = {}
    /\ tasks \in issued
    /\ writes = <<>>
    /\ flow = NoFlow

\* one page issues two to MaxTasks creates and updates without awaiting them
InitLoop ==
    InitTasks(UNION { [1..n -> CreateTasks(1) \cup UpdateTasks(1)] : n \in 2..MaxTasks })

SpecLoop == InitLoop /\ [][NextTasks]_vars

\* two tabs issue one create each
InitTabs ==
    InitTasks({ <<a, b>> : a \in CreateTasks(1), b \in CreateTasks(2) })

SpecTabs == InitTabs /\ [][NextTasks]_vars

-----------------------------------------------------------------------------
(* Execution flows.  A framework page runs executeCommand (JTAF, Floating)  *)
(* or triggerJenkinsBuild (OS Making): create the build log as running,     *)
(* call Jenkins (JTAF and Floating only), run the timed steps, update the   *)
(* build log to completed; any error thrown on the way is caught and the    *)
(* build log is updated to failed.  Each call probes the backend anew.      *)

FlowKinds == {"JTAF Framework", "Floating Framework", "OS Making"}

\* `JTAF-${Date.now()}`, `FLOATING-${Date.now()}`, `OS-${Date.now()}`
NewBuildId(kind, t) ==
    (IF kind = "JTAF Framework" THEN "JTAF-"
     ELSE IF kind = "Floating Framework" THEN "FLOATING-"
     ELSE "OS-") \o ToString(t)

\* the argument of the flow's buildLogsApi.create
FlowLog(kind, id) ==
    [build_id |-> id, type |-> kind, status |-> "running",
     start_time |-> "2024-01-01T00:00:00Z", config |-> "{}",
     jenkins_job |-> "jenkins-pipeline"]
        @@ (IF kind = "OS Making" THEN EmptyObj ELSE [command |-> "run --env=dev"])

\* the argument of the flow's buildLogsApi.update
FlowData(status) ==
    [status |-> status, end_time |-> "2024-01-01T00:05:00Z",
     output_log |-> IF status = "completed" THEN "all steps done"
                    ELSE "[ERROR] Pipeline failed"]

\* outcome, and stores afterwards, of the buildLogsApi call the flow awaits
FlowCall(op, buildLog, data, h, r) ==
    IF ~checkApiHealth(h)
    THEN IF Unparseable({"pipelines"})
         THEN [out |-> Throw(JsonSyntaxError), local |-> pipelines, remote |-> remoteLogs]
         ELSE [out |-> Returned([message |-> OfflineMessage(
                          IF op = "create" THEN "Build log created"
                          ELSE "Build log updated")]),
               local |-> IF op = "create" THEN LocalCreateLog(pipelines, buildLog)
                         ELSE LocalUpdateLog(pipelines, buildLog.build_id, data),
               remote |-> remoteLogs]
    ELSE LET found == RemoteFind(remoteLogs, buildLog.build_id) # 0
             response == Response(r, IF op = "create" THEN ~found ELSE found)
         IN  [out |-> OnlineOut(response,
                          [message |-> RemoteMessage(
                              IF op = "create" THEN "Build log created"
                              ELSE "Build log updated")],
                          IF op = "create" THEN "Failed to create build log"
                          ELSE "Failed to update build log"),
              local |-> pipelines,
              remote |-> IF response # "2xx" THEN remoteLogs
                         ELSE IF op = "create"
                         THEN RemoteInsertLog(remoteLogs, buildLog)
                         ELSE RemoteUpdate(remoteLogs, buildLog.build_id, data)]

\* what the flow notes of a call it awaited
Issued(op, status, h, call) ==
    [op |-> op, status |-> status, mode |-> Mode(h), ok |-> call.out.kind = "ok",
     changed |-> call.local # pipelines \/ call.remote # remoteLogs]

\* the click on Execute; the button does nothing without a command
FlowStart ==
    /\ flow.pc = "idle"
    /\ \E kind \in FlowKinds :
         flow' = [NoFlow EXCEPT !.kind = kind, !.pc = "create",
                                !.id = NewBuildId(kind, now)]
    /\ UNCHANGED <<pipelines, generatedCodes, remoteLogs, remoteCodes, now,
                   created, last, page, corrupt, tasks, writes>>

\* await buildLogsApi.create({... status: "running" ...})
FlowCreate ==
    /\ flow.pc = "create"
    /\ \E h \in HealthOutcomes, r \in RemoteOutcomes :
         LET call == FlowCall("create", FlowLog(flow.kind, flow.id), EmptyObj, h, r) IN
         /\ pipelines' = call.local
         /\ remoteLogs' = call.remote
         /\ flow' = [flow EXCEPT
                !.pc = IF call.out.kind = "throw" THEN "catch"
                       ELSE IF flow.kind = "OS Making" THEN "steps"
                       ELSE "trigger",
                !.error = IF call.out.kind = "throw" THEN call.out.error ELSE "",
                !.issued = Append(@, Issued("create", "running", h, call))]
    /\ UNCHANGED <<generatedCodes, remoteCodes, now, created, last, page,
                   corrupt, tasks, writes>>

\* triggerJenkinsJob letting its error out
FlowTriggerThrows ==
    /\ flow.pc = "trigger"
    /\ \E response \in HealthOutcomes :
         flow' = [flow EXCEPT
                    !.pc = IF response = "2xx" THEN "steps" ELSE "catch",
                    !.trigger = response,
                    !.error = IF response = "2xx" THEN ""
                              ELSE IF response = "neterr" THEN FetchRejected
                              ELSE "Jenkins API call failed"]
    /\ UNCHANGED <<pipelines, generatedCodes, remoteLogs, remoteCodes, now,
                   created, last, page, corrupt, tasks, writes>>

\* await triggerJenkinsJob(...): its own try/catch logs the error
FlowTrigger ==
    /\ flow.pc = "trigger"
    /\ \E response \in HealthOutcomes :
         flow' = [flow EXCEPT !.pc = "steps", !.trigger = response]
    /\ UNCHANGED <<pipelines, generatedCodes, remoteLogs, remoteCodes, now,
                   created, last, page, corrupt, tasks, writes>>

\* one turn of the loop over steps: the timer fires, the line is logged
FlowStep ==
    /\ flow.pc = "steps"
    /\ flow' = [flow EXCEPT !.step = @ + 1,
                            !.pc = IF flow.step + 1 = StepCount THEN "update"
                                   ELSE "steps"]
    /\ UNCHANGED <<pipelines, generatedCodes, remoteLogs, remoteCodes, now,
                   created, last, page, corrupt, tasks, writes>>

\* the flow going on to its catch block whatever the update returned
AfterUpdateAlways(out) == "catch"

\* where the flow goes after the update to completed: on to the success
\* toast, or into the catch block when the update threw
AfterUpdate(out) == IF out.kind = "throw" THEN "catch" ELSE "done"

\* await buildLogsApi.update(newBuildId, {status: "completed", ...})
FlowUpdate ==
    /\ flow.pc = "update"
    /\ \E h \in HealthOutcomes, r \in RemoteOutcomes :
         LET call == FlowCall("update", FlowLog(flow.kind, flow.id),
                              FlowData("completed"), h, r) IN
         /\ pipelines' = call.local
         /\ remoteLogs' = call.remote
         /\ flow' = [flow EXCEPT
                !.pc = AfterUpdate(call.out),
                !.error = IF call.out.kind = "throw" THEN call.out.error ELSE "",
                !.toast = IF AfterUpdate(call.out) = "done" THEN "complete" ELSE @,
                !.issued = Append(@, Issued("update", "completed", h, call))]
    /\ UNCHANGED <<generatedCodes, remoteCodes, now, created, last, page,
                   corrupt, tasks, writes>>

\* catch (error): await buildLogsApi.update(newBuildId, {status: "failed",
\* ...}) inside its own try/catch, then the failure toast
FlowCatch ==
    /\ flow.pc = "catch"
    /\ \E h \in HealthOutcomes, r \in RemoteOutcomes :
         LET call == FlowCall("update", FlowLog(flow.kind, flow.id),
                              FlowData("failed"), h, r) IN
         /\ pipelines' = call.local
         /\ remoteLogs' = call.remote
         /\ flow' = [flow EXCEPT
                !.pc = "done",
                !.toast = "failed",
                !.issued = Append(@, Issued("update", "failed", h, call))]
    /\ UNCHANGED <<generatedCodes, remoteCodes, now, created, last, page,
                   corrupt, tasks, writes>>

\* the stores hold build logs of earlier clock readings, or nothing
InitFlow ==
    /\ pipelines \in {<<>>, <<HistoricalLog("JTAF-1")>>}
    /\ remoteLogs \in {<<>>} \cup
                      { RemoteInsertLog(<<>>, buildLog) : buildLog \in BuildLogInputs }
    /\ generatedCodes = <<>>
    /\ remoteCodes = <<>>
    /\ now = MaxClock + 1
    /\ created = <<>>
    /\ last = NoCall
    /\ page = "pipelines"
    /\ corrupt = {}
    /\ tasks = <<>>
    /\ writes = <<>>
    /\ flow = NoFlow

NextFlow ==
    FlowStart \/ FlowCreate \/ FlowTrigger \/ FlowStep \/ FlowUpdate \/ FlowCatch

SpecFlow == InitFlow /\ [][NextFlow]_vars

\* every probe, request and timer of the flow settles
SpecFlowFair == SpecFlow /\ WF_vars(NextFlow)

-----------------------------------------------------------------------------
(* Properties *)

\* the record a reader of the branch taken builds from a stored record
View(mode, rec) == IF mode = "offline" THEN NormalizeLog(rec) ELSE rec

\* the same for either resource: only the build logs are normalised
ViewOf(api, mode, rec) == IF api = "buildLogs" THEN View(mode, rec) ELSE rec

Resources == {"buildLogs", "generatedCode"}

\* the collection the branch taken works on
ActiveStore(api, mode) ==
    IF api = "buildLogs"
    THEN (IF mode = "offline" THEN pipelines ELSE remoteLogs)
    ELSE (IF mode = "offline" THEN generatedCodes ELSE remoteCodes)

\* some record of list goes by id
HasId(list, id) ==
    \E i \in DOMAIN list :
        Get(list[i], "id") = id \/ Get(list[i], "build_id") = id

\* the outcome is a thrown error that says the record was not found
NotFoundError(out) == out.kind = "throw" /\ Includes(out.error, "not found")

\* the outcome is the generic error of a failed request, "Failed to <op> ..."
RequestFailed(out) ==
    out.kind = "throw" /\ Len(out.error) > 10 /\ SubSeq(out.error, 1, 10) = "Failed to "

\* a read that directly follows a write of the same branch (for the same
\* id, where both name one), and whose request, if any, the backend served
Follows(c, api, op, write) ==
    /\ c.api = api
    /\ c.op = op
    /\ c.after = write
    /\ c.server \in {"none", "served"}

\* C1: buildLogsApi.create(input) followed by getById(input.build_id), both
\* offline or both online, returns a record whose canonical fields equal
\* those of the input.
C1_CreateThenGetById ==
    [][ Follows(last', "buildLogs", "getById", "create")
        => /\ last'.out.kind = "ok"
           /\ \A f \in CanonicalFields :
                Get(last'.out.value, f) = Get(last.input, f) ]_vars

\* C1 happens: an offline getById returns the record created just before,
\* above an older record, with no end_time
C1_Witness ==
    /\ Follows(last, "buildLogs", "getById", "create")
    /\ last.mode = "offline"
    /\ last.out.kind = "ok"
    /\ Len(pipelines) = MaxRecords
    /\ Get(last.out.value, "end_time") = Undefined

\* C2: for every record present in the active store, also one stored under
\* the historical field names, update(id, {status: s, end_time: T}) followed
\* by getById(id) returns status = s, end_time = T and every other field as
\* it was before the update.
C2_UpdateMerge ==
    [][ (Follows(last', "buildLogs", "getById", "update") /\ last.before # <<>>)
        => /\ last'.out.kind = "ok"
           /\ Get(last'.out.value, "status") = last.input.status
           /\ Get(last'.out.value, "end_time") = last.input.end_time
           /\ LET got == last'.out.value
                  was == View(last.mode, last.before[1])
              IN  \A f \in (DOMAIN got \cup DOMAIN was) \ {"status", "end_time"} :
                      Get(got, f) = Get(was, f) ]_vars

\* C3: from an empty fallback store, after 11 offline generatedCodeApi.create
\* calls getAll() returns exactly 10 records, the 10 created last, newest
\* first; the record created first is not among them.
C3_CapLaw ==
    (/\ last.api = "generatedCode"
     /\ last.op = "getAll"
     /\ last.mode = "offline"
     /\ last.limit = 0
     /\ Len(created) = CodeCap + 1)
    => /\ last.out.kind = "ok"
       /\ Len(last.out.value) = CodeCap
       /\ \A i \in 1..CodeCap : last.out.value[i] = created[CodeCap + 2 - i]
       /\ created[1] # created[2]
            => \A i \in 1..CodeCap : last.out.value[i] # created[1]

\* C3 happens: getAll() after the 11th create, the first record having an
\* id of its own
C3_Witness ==
    /\ last.api = "generatedCode"
    /\ last.op = "getAll"
    /\ last.mode = "offline"
    /\ last.limit = 0
    /\ Len(created) = CodeCap + 1
    /\ \A j \in 2..(CodeCap + 1) : created[j].id # created[1].id

C5_ClearLaw ==
    [][ \A api \in Resources :
          Follows(last', api, "getAll", "clearAll")
          => last'.out.kind = "ok" /\ last'.out.value = <<>> ]_vars

\* C5 happens: getAll() right after an offline clearAll() of a collection
\* that held records
C5_Witness ==
    /\ Follows(last, "buildLogs", "getAll", "clearAll")
    /\ last.mode = "offline"
    /\ last.before # <<>>
    /\ last.out.kind = "ok"

\* C6: getAll, getById and statsApi.get leave "pipelines" and
\* "generatedCodes" as they were, and a getAll repeated offline with no write
\* in between returns what the first returned.
C6_ReadsArePure ==
    [][ /\ last'.op \in ReadOps
           => pipelines' = pipelines /\ generatedCodes' = generatedCodes
        /\ (/\ last.op = "getAll" /\ last'.op = "getAll"
            /\ last.api = last'.api
            /\ last.mode = "offline" /\ last'.mode = "offline"
            /\ last.limit = last'.limit)
           => last'.out = last.out ]_vars

\* C6 happens: a second offline getAll() over a record stored under the
\* historical names, which the result shows under the canonical ones
C6_Witness ==
    /\ last.api = "buildLogs"
    /\ last.op = "getAll"
    /\ last.mode = "offline"
    /\ last.out.kind = "ok"
    /\ last.out.value # <<>>
    /\ last.out.value # pipelines
    /\ \E i \in DOMAIN pipelines : Get(pipelines[i], "startTime") # Undefined

\* C7: a response of create, update, delete or clearAll built offline
\* carries a message containing "offline mode"; a response of these
\* operations that came from the backend, and an error they throw, does not.
C7_OfflineMessage ==
    last.op \in WriteOps
    => /\ last.mode = "offline"
          => /\ last.out.kind = "ok"
             /\ Includes(last.out.value.message, "offline mode")
       /\ (last.mode = "online" /\ last.out.kind = "ok")
          => ~Includes(last.out.value.message, "offline mode")
       /\ last.out.kind = "throw" => ~Includes(last.out.error, "offline mode")

\* C7 happens: an offline update of a record that is there has returned
C7_Witness ==
    /\ last.api = "buildLogs"
    /\ last.op = "update"
    /\ last.mode = "offline"
    /\ last.before # <<>>
    /\ last.out.kind = "ok"

C9_NetworkAbsorbed ==
    (/\ last.api \in Resources
     /\ last.op # "clearAll"
     /\ (last.health = "neterr" \/ last.remote = "neterr"))
    => /\ last.out.kind = "ok" \/ NotFoundError(last.out)
       /\ (last.op \in WriteOps /\ last.out.kind = "ok")
          => Includes(last.out.value.message, "offline mode")

\* C10: a request the backend answers outside 2xx makes the operation throw
\* its generic error after one probe and one request, and leaves every
\* collection as it was.
C10_RequestFailedPropagates ==
    [][ (last'.mode = "online" /\ last'.remote = "non2xx")
        => /\ RequestFailed(last'.out)
           /\ last'.probes = 1
           /\ last'.requests = 1
           /\ UNCHANGED <<pipelines, generatedCodes, remoteLogs, remoteCodes>>
      ]_vars

\* C10 happens: the backend rejected a create while both the fallback and
\* the backend collection hold a record
C10_Witness ==
    /\ last.api = "buildLogs"
    /\ last.op = "create"
    /\ last.mode = "online"
    /\ last.server = "rejected"
    /\ last.remote = "non2xx"
    /\ pipelines # <<>>
    /\ remoteLogs # <<>>

\* C11: when the text under "pipelines" or "generatedCodes" is not JSON,
\* every offline operation on that key treats the collection as empty and
\* completes without an error of the parse: getAll returns the empty list,
\* create leaves a collection of one record, getById finds nothing.
C11_MalformedIsSilent ==
    [][ (/\ last'.api \in Resources
         /\ last'.mode = "offline"
         /\ StorageKey(last'.api) \in corrupt)
        => /\ last'.out.kind = "ok" \/ NotFoundError(last'.out)
           /\ last'.op = "getAll" => last'.out.value = <<>>
           /\ last'.op = "create" =>
                Len(IF last'.api = "buildLogs" THEN pipelines'
                    ELSE generatedCodes') = 1
      ]_vars

\* the list request of the mounted page
PageGetAll ==
    \/ (page = "pipelines" /\ BuildLogsGetAll)
    \/ (page = "code-generation" /\ GeneratedCodeGetAll)

\* C12: the mode is chosen per call.  Every operation makes one probe and
\* takes the remote branch exactly when that probe answered 2xx; after any
\* call, in whichever mode it ran, the next call (here the list request of
\* the page) can run online and can run offline.
C12_ModePerCall ==
    /\ last.api # "none"
       => /\ last.probes = 1
          /\ (last.mode = "online") <=> (last.health = "2xx")
    /\ ENABLED (PageGetAll /\ last'.health = "2xx" /\ last'.mode = "online")
    /\ ENABLED (PageGetAll /\ last'.health # "2xx" /\ last'.mode = "offline")

\* C12 happens: an online getAll in a session that has created one build log
\* offline and another online
C12_Witness ==
    /\ last.api = "buildLogs"
    /\ last.op = "getAll"
    /\ last.mode = "online"
    /\ last.out.kind = "ok"
    /\ Len(remoteLogs) = 1
    /\ Len(pipelines) = 1
    /\ Get(pipelines[1], "start_time") # Undefined

\* C14: checkApiHealth answers true only for a 2xx answer of GET /health; a
\* non-2xx answer or a rejected fetch gives false and no error: the
\* operation then sends nothing else and what it throws, if anything, is
\* not the rejection of fetch.
C14_HealthProbe ==
    last.api # "none"
    => /\ last.probes = 1
       /\ last.health = "2xx" => last.requests = 1 /\ last.server # "none"
       /\ last.health \in {"non2xx", "neterr"}
          => /\ last.requests = 0
             /\ last.server = "none"
             /\ last.out # Throw(FetchRejected)

\* C14 happens: the probe got a non-2xx answer and the create was done on
\* the fallback store
C14_Witness ==
    /\ last.api = "buildLogs"
    /\ last.op = "create"
    /\ last.health = "non2xx"
    /\ last.out.kind = "ok"
    /\ pipelines # <<>>

\* C13: split-brain isolation.  A call that ran online leaves "pipelines"
\* and "generatedCodes" as they were and answers from the backend alone; a
\* call that ran offline sends no request, leaves the backend as it was and
\* answers from the fallback store alone.  So getAll returns only records of
\* the store of its branch, and getById succeeds only for an id that store
\* holds, whatever the other store holds.
C13_SplitBrain ==
    [][ /\ last'.mode = "online"
           => pipelines' = pipelines /\ generatedCodes' = generatedCodes
        /\ (last'.mode = "offline" /\ last'.api # "none")
           => /\ remoteLogs' = remoteLogs /\ remoteCodes' = remoteCodes
              /\ last'.requests = 0
        /\ (last'.api \in Resources /\ last'.out.kind = "ok")
           => LET store == ActiveStore(last'.api, last'.mode) IN
              /\ last'.op = "getAll"
                 => \A j \in DOMAIN last'.out.value :
                      \E i \in DOMAIN store :
                        last'.out.value[j] = ViewOf(last'.api, last'.mode, store[i])
              /\ last'.op = "getById" => HasId(store, last'.id)
      ]_vars

\* C13 happens: an online getById, served by the backend, fails for a
\* build log that was created offline and is in "pipelines"
C13_Witness ==
    /\ last.api = "buildLogs"
    /\ last.op = "getById"
    /\ last.mode = "online"
    /\ last.server = "served"
    /\ last.out.kind = "throw"
    /\ HasId(pipelines, last.id)
    /\ ~HasId(remoteLogs, last.id)
    /\ \E i \in DOMAIN pipelines :
         Get(pipelines[i], "id") = last.id /\ Get(pipelines[i], "start_time") # Undefined

\* the canonical field c of the record got holds what the stored record p
\* holds under c, or under the historical name h when p has no c, and
\* nothing when p holds neither
Reconciles(p, got, c, h) ==
    Get(got, c) = IF Get(p, c) # Undefined THEN Get(p, c) ELSE Get(p, h)

\* got is the stored record p with its three canonical fields reconciled
\* and every other field as stored
Reconciled(p, got) ==
    /\ Reconciles(p, got, "start_time", "startTime")
    /\ Reconciles(p, got, "end_time", "endTime")
    /\ Reconciles(p, got, "jenkins_job", "jenkinsJob")
    /\ \A f \in DOMAIN p \ {"start_time", "end_time", "jenkins_job"} :
         Get(got, f) = p[f]

\* C15: for every record of "pipelines", stored under the canonical names,
\* the historical names or both, offline getAll and getById return it with
\* start_time, end_time and jenkins_job holding the stored value, and
\* getById returns the record getAll returns at the place of the first
\* record with that id.
C15_FieldReconciliation ==
    [][ (/\ last'.api = "buildLogs"
         /\ last'.mode = "offline"
         /\ last'.out.kind = "ok")
        => /\ last'.op = "getAll"
              => /\ Len(last'.out.value) = Len(pipelines)
                 /\ \A i \in DOMAIN pipelines :
                      Reconciled(pipelines[i], last'.out.value[i])
           /\ last'.op = "getById"
              => \E i \in DOMAIN pipelines :
                   /\ HasId(<<pipelines[i]>>, last'.id)
                   /\ \A j \in 1..(i - 1) : ~HasId(<<pipelines[j]>>, last'.id)
                   /\ Reconciled(pipelines[i], last'.out.value)
                   /\ (/\ last.api = "buildLogs" /\ last.op = "getAll"
                       /\ last.mode = "offline" /\ last.out.kind = "ok")
                      => last.out.value[i] = last'.out.value
      ]_vars

\* C16: offline, buildLogsApi.update(id, partial) for an id that no record
\* of "pipelines" has reports success and leaves "pipelines" exactly as it
\* was.
C16_UpdateAbsentIsNoOp ==
    [][ (/\ last'.api = "buildLogs"
         /\ last'.op = "update"
         /\ last'.mode = "offline"
         /\ ~HasId(pipelines, last'.id))
        => /\ last'.out.kind = "ok"
           /\ last'.out.value.message = "Build log updated (offline mode)"
           /\ pipelines' = pipelines
      ]_vars

\* C16 happens: an offline update for an id that "pipelines", which holds
\* another record, does not have
C16_Witness ==
    /\ last.api = "buildLogs"
    /\ last.op = "update"
    /\ last.mode = "offline"
    /\ last.out.kind = "ok"
    /\ pipelines # <<>>
    /\ ~HasId(pipelines, last.id)

\* the number of records of list whose field has the value
Count(list, field, value) ==
    Cardinality({i \in DOMAIN list : field \in DOMAIN list[i]
                                      /\ list[i][field] = value})

\* C17: offline, statsApi.get() returns the counts of the store as it is at
\* the call: the number of build logs, of those running, completed and
\* failed, of those of type "JTAF Framework", "Floating Framework" and
\* "OS Making", the number of generated codes and the limit 10.
C17_StatsProjection ==
    (last.api = "stats" /\ last.mode = "offline")
    => /\ last.out.kind = "ok"
       /\ LET logs == last.out.value.build_logs
              codes == last.out.value.generated_code
          IN  /\ logs.total = Len(pipelines)
              /\ logs.running = Count(pipelines, "status", "running")
              /\ logs.completed = Count(pipelines, "status", "completed")
              /\ logs.failed = Count(pipelines, "status", "failed")
              /\ logs.by_type.jtaf = Count(pipelines, "type", "JTAF Framework")
              /\ logs.by_type.floating
                    = Count(pipelines, "type", "Floating Framework")
              /\ logs.by_type.os_making = Count(pipelines, "type", "OS Making")
              /\ codes.total = Len(generatedCodes)
              /\ codes.limit = 10

\* C17 happens: offline statistics over a historical Floating Framework
\* record and a JTAF Framework record created after it
C17_Witness ==
    /\ last.api = "stats"
    /\ last.mode = "offline"
    /\ last.out.kind = "ok"
    /\ Len(pipelines) = 2
    /\ last.out.value.build_logs.by_type.jtaf = 1
    /\ last.out.value.build_logs.by_type.floating = 1
    /\ last.out.value.build_logs.running = 2

\* C20: the fallback store does not enforce unique build_ids.  An offline
\* buildLogsApi.create reports success and puts one record in front of the
\* records already stored, which all stay, also when one of them has the
\* same build_id; the new record has id equal to its build_id.
C20_NoUniqueness ==
    [][ (/\ last'.api = "buildLogs"
         /\ last'.op = "create"
         /\ last'.mode = "offline")
        => /\ last'.out.kind = "ok"
           /\ last'.out.value.id = last'.input.build_id
           /\ Len(pipelines') = Len(pipelines) + 1
           /\ Get(pipelines'[1], "id") = last'.input.build_id
           /\ Get(pipelines'[1], "build_id") = last'.input.build_id
           /\ \A i \in DOMAIN pipelines : pipelines'[i + 1] = pipelines[i]
      ]_vars

\* C20 happens: an offline create has put a second record with the same id
\* in front of the first
C20_Witness ==
    /\ last.api = "buildLogs"
    /\ last.op = "create"
    /\ last.mode = "offline"
    /\ last.out.kind = "ok"
    /\ Len(pipelines) = 2
    /\ Get(pipelines[1], "id") = Get(pipelines[2], "id")
    /\ Get(pipelines[1], "id") = last.input.build_id

\* C18: offline, from an empty store filled by creates, getAll({limit: n})
\* returns the min(n, stored count) records created last, the last one
\* first, and getAll() without limit does so with n = 10.
C18_GetAllLimit ==
    (/\ last.api = "generatedCode"
     /\ last.op = "getAll"
     /\ last.mode = "offline")
    => /\ last.out.kind = "ok"
       /\ LET n == IF last.limit = 0 THEN 10 ELSE last.limit
              k == IF n < Len(generatedCodes) THEN n ELSE Len(generatedCodes)
          IN  /\ Len(last.out.value) = k
              /\ \A i \in 1..k :
                   last.out.value[i] = created[Len(created) + 1 - i]

\* C18 happens: three creates at three different times, then
\* getAll({limit: 2}) returns the third and the second
C18_Witness ==
    /\ last.api = "generatedCode"
    /\ last.op = "getAll"
    /\ last.mode = "offline"
    /\ last.limit = 2
    /\ Len(created) = 3
    /\ created[1].id # created[2].id
    /\ created[2].id # created[3].id
    /\ last.out = Returned(<<created[3], created[2]>>)

\* C19: in every state reached from an empty fallback store "generatedCodes"
\* holds at most 10 records, and offline statistics report
\* generated_code.total <= generated_code.limit.
C19_CapInvariant ==
    /\ Len(generatedCodes) <= CodeCap
    /\ (last.api = "stats" /\ last.mode = "offline")
       => /\ last.out.kind = "ok"
          /\ last.out.value.generated_code.total
                <= last.out.value.generated_code.limit

\* C19 happens: offline statistics over a full "generatedCodes", while the
\* backend collection holds a record too
C19_Witness ==
    /\ last.api = "stats"
    /\ last.mode = "offline"
    /\ last.out.kind = "ok"
    /\ last.out.value.generated_code.total = 10
    /\ Len(generatedCodes) = CodeCap
    /\ remoteCodes # <<>>

\* C21: collection independence.  No buildLogsApi operation changes
\* "generatedCodes" and no generatedCodeApi operation changes "pipelines",
\* in either mode; clearAll of one resource leaves the other as it was.
C21_Independence ==
    [][ /\ last'.api = "buildLogs" => generatedCodes' = generatedCodes
        /\ last'.api = "generatedCode" => pipelines' = pipelines ]_vars

\* C21 happens: an offline buildLogsApi.clearAll() has emptied "pipelines"
\* while "generatedCodes" holds a record
C21_Witness ==
    /\ last.api = "buildLogs"
    /\ last.op = "clearAll"
    /\ last.mode = "offline"
    /\ last.before # <<>>
    /\ pipelines = <<>>
    /\ generatedCodes # <<>>

\* a is b with some elements left out, the others in the order of b
RECURSIVE IsSubSeq(_, _)
IsSubSeq(a, b) ==
    IF a = <<>> THEN TRUE
    ELSE IF b = <<>> THEN FALSE
    ELSE IF Head(a) = Head(b) THEN IsSubSeq(Tail(a), Tail(b))
    ELSE IsSubSeq(a, Tail(b))

C29_ParamsIgnoredOffline ==
    (last.api = "buildLogs" /\ last.op = "getAll" /\ last.mode = "offline")
    => /\ last.out.kind = "ok"
       /\ Len(last.out.value) = Len(pipelines)
       /\ \A i \in DOMAIN pipelines :
            /\ Get(last.out.value[i], "id") = Get(pipelines[i], "id")
            /\ Get(last.out.value[i], "status") = Get(pipelines[i], "status")
            /\ Get(last.out.value[i], "type") = Get(pipelines[i], "type")

\* C29 happens: an offline getAll asked for one running record after the
\* first returns both stored records, one of them not running
C29_Witness ==
    /\ last.api = "buildLogs"
    /\ last.op = "getAll"
    /\ last.mode = "offline"
    /\ last.input = [skip |-> 1, limit |-> 1, status |-> "running", type |-> "OS Making"]
    /\ Len(pipelines) = 2
    /\ Get(pipelines[1], "status") = "completed"
    /\ Get(pipelines[2], "type") = "Floating Framework"
    /\ Len(last.out.value) = 2

\* C30: when several records of "pipelines" match the key (id or build_id
\* equals the argument), offline getById returns the match nearest the
\* front, which is the most recently created one; offline update changes
\* that match only and leaves every other record as it was; offline delete
\* removes every match and no other record.
C30_SeveralMatches ==
    [][ (last'.api = "buildLogs" /\ last'.mode = "offline")
        => LET key == last'.id
               matches == { i \in DOMAIN pipelines :
                              \/ Get(pipelines[i], "id") = key
                              \/ Get(pipelines[i], "build_id") = key }
               newest == CHOOSE i \in matches : \A j \in matches : i <= j
           IN  matches # {}
               => /\ last'.op = "getById"
                     => /\ last'.out.kind = "ok"
                        /\ Get(last'.out.value, "command")
                             = Get(pipelines[newest], "command")
                  /\ last'.op = "update"
                     => /\ Len(pipelines') = Len(pipelines)
                        /\ Get(pipelines'[newest], "status") = last'.input.status
                        /\ Get(pipelines'[newest], "command")
                             = Get(pipelines[newest], "command")
                        /\ \A i \in DOMAIN pipelines \ {newest} :
                             pipelines'[i] = pipelines[i]
                  /\ last'.op = "delete"
                     => /\ Len(pipelines') = Len(pipelines) - Cardinality(matches)
                        /\ \A i \in DOMAIN pipelines \ matches :
                             \E j \in DOMAIN pipelines' : pipelines'[j] = pipelines[i]
                        /\ \A j \in DOMAIN pipelines' :
                             /\ Get(pipelines'[j], "id") # key
                             /\ Get(pipelines'[j], "build_id") # key
      ]_vars

\* C30 happens: an offline update by a key that the newest and the oldest
\* of three records match, one by id and one by build_id only, has changed
\* the newest and left the oldest running
C30_Witness ==
    /\ last.api = "buildLogs"
    /\ last.op = "update"
    /\ last.mode = "offline"
    /\ Len(pipelines) = 3
    /\ Get(pipelines[1], "id") = last.id
    /\ Get(pipelines[1], "build_id") # last.id
    /\ Get(pipelines[3], "id") # last.id
    /\ Get(pipelines[3], "build_id") = last.id
    /\ Get(pipelines[1], "status") = last.input.status
    /\ Get(pipelines[3], "status") = "running"

\* every task has returned or thrown
AllDone == \A t \in DOMAIN tasks : tasks[t].pc = "done"

\* the tasks that took the fallback branch and returned
OfflineDone(op) ==
    { t \in DOMAIN tasks : tasks[t].op = op /\ tasks[t].pc = "done"
                           /\ tasks[t].out.kind = "ok"
                           /\ tasks[t].out.value.message
                                \in {OfflineMessage("Build log created"),
                                     OfflineMessage("Build log updated")} }

\* C23: lost update across contexts.  Two tabs each run an offline create as
\* a read step and a write step on the shared "pipelines"; both creates
\* report success, and when the tab that wrote last had read before the
\* other tab wrote, the store holds only the last writer's record: the
\* other record is lost.  Otherwise the store holds both.
C23_LostUpdate ==
    (AllDone /\ Len(writes) = 2)
    => /\ \A t \in DOMAIN tasks : t \in OfflineDone("create")
       /\ Get(pipelines[1], "build_id") = tasks[writes[2]].id
       /\ IF tasks[writes[2]].seen = 0
          THEN /\ Len(pipelines) = Len(RaceStore) + 1
               /\ Tail(pipelines) = RaceStore
          ELSE /\ Len(pipelines) = Len(RaceStore) + 2
               /\ Get(pipelines[2], "build_id") = tasks[writes[1]].id

\* C23 happens: both tabs created a build log offline with success and
\* "pipelines" holds one new record, that of the second tab; the first
\* tab's record is gone
C23_Witness ==
    /\ AllDone
    /\ OfflineDone("create") = {1, 2}
    /\ tasks[1].ctx # tasks[2].ctx
    /\ tasks[1].id # tasks[2].id
    /\ Len(pipelines) = Len(RaceStore) + 1
    /\ Get(pipelines[1], "build_id") = tasks[2].id
    /\ \A i \in DOMAIN pipelines : Get(pipelines[i], "build_id") # tasks[1].id

\* the fallback blocks of the tasks in order, run one after another on stored
RECURSIVE Replay(_, _)
Replay(stored, order) ==
    IF order = <<>> THEN stored
    ELSE Replay(LocalStep(tasks[Head(order)], stored), Tail(order))

\* C24: single-context atomicity.  Tasks of one context are never suspended
\* between the read and the write of the fallback store: at most one task
\* is between the two, and "pipelines" always equals the fallback blocks
\* run so far, applied one after another in the order they ran; n
\* concurrent offline creates leave n new records.
C24_SingleContextAtomic ==
    /\ Cardinality({ t \in DOMAIN tasks : tasks[t].pc = "write" }) <= 1
    /\ \A t \in DOMAIN tasks : tasks[t].pc = "write" => tasks[t].read = pipelines
    /\ pipelines = Replay(RaceStore, writes)
    /\ Len(pipelines) = Len(RaceStore) + Cardinality(OfflineDone("create"))

\* C24 happens: two creates issued together by one page both took the
\* fallback branch, the one issued second ran first, and both records are
\* stored
C24_Witness ==
    /\ AllDone
    /\ writes = <<2, 1>>
    /\ OfflineDone("create") = {1, 2}
    /\ tasks[1].id # tasks[2].id
    /\ Len(pipelines) = Len(RaceStore) + 2
    /\ Get(pipelines[1], "build_id") = tasks[1].id
    /\ Get(pipelines[2], "build_id") = tasks[2].id

\* the fields the data of an update sets
Sets(task, field) == field \in DOMAIN task.input

\* C25: last write wins.  When the tasks are offline updates of one id,
\* each reports success, no error is raised, the stored record carries the
\* status of the update whose write ran last, and a field set by only one
\* of the updates carries that update's value.
C25_LastWriteWins ==
    (AllDone /\ writes # <<>> /\ \A t \in DOMAIN tasks : tasks[t].op = "update")
    => LET record == pipelines[1]
           latest == tasks[writes[Len(writes)]]
           writers == { writes[i] : i \in DOMAIN writes }
       IN  /\ writers = OfflineDone("update")
           /\ Get(record, "status") = latest.input.status
           /\ \A field \in {"output_log", "end_time"}, t \in writers :
                (/\ Sets(tasks[t], field)
                 /\ \A u \in writers :
                      Sets(tasks[u], field) => tasks[u].input[field] = tasks[t].input[field])
                => Get(record, field) = tasks[t].input[field]

\* C25 happens: two offline updates of JTAF-1 with different status were
\* issued together, the one issued first wrote last and its status is
\* stored, with the end_time only the other one set
C25_Witness ==
    /\ AllDone
    /\ Len(tasks) = 2
    /\ writes = <<2, 1>>
    /\ tasks[1].op = "update"
    /\ tasks[2].op = "update"
    /\ tasks[1].input.status = "completed"
    /\ tasks[2].input.status = "failed"
    /\ Get(pipelines[1], "status") = "completed"
    /\ Get(pipelines[1], "output_log") = "all steps done"
    /\ Get(pipelines[1], "end_time") = tasks[2].input.end_time

\* the build logs of the running flow held by a store
OfFlow(store) == SelectSeq(store, LAMBDA rec : Get(rec, "build_id") = flow.id)

\* the updates the flow has issued that changed a stored record
ChangingUpdates ==
    { i \in DOMAIN flow.issued : flow.issued[i].op = "update" /\ flow.issued[i].changed }

Terminal == {"completed", "failed"}

\* C26: build-log lifecycle.  In every run of a flow the first call issued
\* is the create, with status running, and every later call is an update
\* to completed or to failed; a store holds at most one record of the flow;
\* at most one update changes the record, and it does so after the create
\* succeeded; a record that is completed or failed keeps its status.
C26_Lifecycle ==
    /\ [](/\ \A i \in DOMAIN flow.issued :
               IF i = 1
               THEN flow.issued[i].op = "create" /\ flow.issued[i].status = "running"
               ELSE flow.issued[i].op = "update" /\ flow.issued[i].status \in Terminal
          /\ Len(OfFlow(pipelines)) <= 1
          /\ Len(OfFlow(remoteLogs)) <= 1
          /\ Cardinality(ChangingUpdates) <= 1
          /\ ChangingUpdates # {} => flow.issued[1].ok
          /\ flow.issued # <<>> /\ ~flow.issued[1].ok
               => OfFlow(pipelines) = <<>> /\ OfFlow(remoteLogs) = <<>>)
    /\ [][ /\ \A i \in DOMAIN OfFlow(pipelines) :
                Get(OfFlow(pipelines)[i], "status") \in Terminal
                => OfFlow(pipelines)' = OfFlow(pipelines)
           /\ \A i \in DOMAIN OfFlow(remoteLogs) :
                Get(OfFlow(remoteLogs)[i], "status") \in Terminal
                => OfFlow(remoteLogs)' = OfFlow(remoteLogs)
           /\ \A i \in DOMAIN OfFlow(pipelines)' :
                OfFlow(pipelines) = <<>> => Get(OfFlow(pipelines)'[i], "status") = "running"
           /\ \A i \in DOMAIN OfFlow(remoteLogs)' :
                OfFlow(remoteLogs) = <<>> => Get(OfFlow(remoteLogs)'[i], "status") = "running"
         ]_vars

\* C26 happens: a flow created its build log, the update to completed threw,
\* and the update to failed issued from the catch block changed the record
C26_Witness ==
    /\ flow.pc = "done"
    /\ Len(flow.issued) = 3
    /\ flow.issued[1].ok
    /\ ~flow.issued[2].ok
    /\ flow.issued[3].changed
    /\ Len(OfFlow(pipelines)) = 1
    /\ Get(OfFlow(pipelines)[1], "status") = "failed"

\* C27: a failure of the Jenkins trigger call is swallowed.  Whatever the
\* call gives, the flow goes on to its steps and not into its catch block;
\* after a failed trigger all steps run and the next call issued is the
\* update to completed, and when that update returns from the store the
\* record was created in, the record is completed and the flow ends with
\* its success toast.
C27_TriggerSwallowed ==
    /\ [][flow.pc = "trigger" => flow'.pc = "steps" /\ flow'.error = ""]_vars
    /\ [](flow.trigger \in {"non2xx", "neterr"}
          => /\ flow.pc \in {"update", "catch", "done"}
                => flow.step = StepCount
             /\ Len(flow.issued) >= 2
                => /\ flow.issued[2].op = "update"
                   /\ flow.issued[2].status = "completed"
                   /\ (flow.issued[2].ok /\ flow.issued[2].mode = flow.issued[1].mode)
                      => /\ flow.toast = "complete"
                         /\ LET held == IF flow.issued[1].mode = "offline"
                                        THEN OfFlow(pipelines) ELSE OfFlow(remoteLogs)
                            IN  /\ Len(held) = 1
                                /\ Get(held[1], "status") = "completed")

\* C27 happens: the trigger call could not reach the server, and the flow
\* completed its build log in the fallback store
C27_Witness ==
    /\ flow.pc = "done"
    /\ flow.trigger = "neterr"
    /\ flow.toast = "complete"
    /\ flow.step = StepCount
    /\ Len(OfFlow(pipelines)) = 1
    /\ Get(OfFlow(pipelines)[1], "status") = "completed"
    /\ Get(OfFlow(pipelines)[1], "output_log") = "all steps done"

\* C28: every build log a flow created eventually is completed or failed in
\* the store that holds it, whatever the probes of the flow's calls give.
C28_EventuallySettled ==
    /\ (OfFlow(pipelines) # <<>>)
         ~> (\A i \in DOMAIN OfFlow(pipelines) :
                Get(OfFlow(pipelines)[i], "status") \in Terminal)
    /\ (OfFlow(remoteLogs) # <<>>)
         ~> (\A i \in DOMAIN OfFlow(remoteLogs) :
                Get(OfFlow(remoteLogs)[i], "status") \in Terminal)

====
